---- MODULE Spec2Model ----
(***************************************************************************)
(* A model of the post ranking engines of social-media-ranking:            *)
(*   - RankingEngine (ranking_engine.py): the post store, the four         *)
(*     scoring algorithms and the ranking cache with its 60 s TTL;         *)
(*   - StreamingRankingEngine (streaming_ranking_engine.py): the batched   *)
(*     one-pass top-k selection over an iterator of posts, with heapq.     *)
(*                                                                         *)
(* Numbers.  time.time() is read as a whole number of seconds.  A score is *)
(* an integer in a unit fixed per algorithm (scores of two algorithms are  *)
(* never compared by the code):                                            *)
(*   hot_score         1/45000   sign*45000*log10(n) + seconds             *)
(*   engagement_score  1e-6      floor(10^6 * engagement / time_factor)    *)
(*   time_decay        1e-6      base_score * round(10^6 * exp(-r*t))      *)
(*   hybrid            1e-6      engagement * round(10^6 * exp(-w*t))      *)
(* Over the values the model draws, two posts get equal (smaller, larger)  *)
(* integers exactly when the floats of the code are equal (smaller,        *)
(* larger); round(_, 7) in _hot_score merges no two scores at 1/45000.     *)
(* decay_rate and weights['time_decay'] are in hundredths (0.01 is 1),     *)
(* the other weights are whole numbers.                                    *)
(***************************************************************************)
EXTENDS Integers, Sequences, FiniteSets, TLC

VARIABLES
    posts,             \* RankingEngine.posts: post_id -> Post
    ranking_cache,     \* RankingEngine.ranking_cache: algorithm -> <<score, post_id>> list
    cache_timestamps,  \* RankingEngine.cache_timestamps: algorithm -> time of computation
    now,               \* the reading of time.time()
    ret,               \* the last call on the RankingEngine and how it ended
    mutated,           \* the last call that changed the store and the time it ran at
    steps,             \* the number of calls and clock readings so far
    pending,           \* a get_ranked_posts that has its scores and has not cached them yet
    batch_size,        \* StreamingRankingEngine.batch_size
    pc,                \* where rank_posts_streaming stands
    source,            \* the posts that post_iterator yields, in order
    it_pos,            \* how many of them next(post_iterator) has yielded
    pulls,             \* the calls of next(post_iterator) so far
    s_algorithm,       \* the arguments of rank_posts_streaming
    s_top_k,
    s_kwargs,
    batch,             \* its locals
    batch_i,           \* the posts of batch that the scoring loop has passed
    min_heap,
    total_posts,
    batch_count,
    start_time,
    s_ret,             \* what it returned or raised
    base_engine,       \* StreamingRankingEngine.base_engine: a RankingEngine of its own
    earlier            \* what earlier calls on the StreamingRankingEngine returned

svars == <<batch_size, pc, source, it_pos, pulls, s_algorithm, s_top_k, s_kwargs,
           batch, batch_i, min_heap, total_posts, batch_count, start_time, s_ret,
           base_engine, earlier>>
vars == <<posts, ranking_cache, cache_timestamps, now, ret, mutated, steps, pending, svars>>

-----------------------------------------------------------------------------
(* Bounds of the model and constants of the program *)

MaxNow == 80              \* the clock stops advancing here
MaxSteps == 4             \* the length of the runs of the engine
MaxStreamLen == 3         \* the longest sequence given to rank_posts_streaming
MaxTopK == 3              \* the largest top_k
MaxBothSteps == 2         \* the calls on the engine beside a streaming call
MaxStreamNow == 20        \* the clock stops here while rank_posts_streaming runs

cache_ttl == 60           \* RankingEngine.__init__: self.cache_ttl = 60
EpochOffset == 1134028003 \* _hot_score: seconds = ... - 1134028003
VectorizedDecayRate == 10  \* decay_rate of _vectorized_calculate_scores, in hundredths
DefaultDecayRate == 1     \* _calculate_scores: kwargs.get('decay_rate', 0.01)
DefaultLimit == 100       \* get_ranked_posts(..., limit: int = 100, ...)
DefaultBatchSize == 100000 \* StreamingRankingEngine.__init__(batch_size=100_000, ...)

TickSteps == {20, 60}
PostIds == {"a", "b"}
\* str order of the ids, as the tuple comparison of (score, post_id) uses it
IdOrd(id) == IF id = "a" THEN 1 ELSE IF id = "b" THEN 2 ELSE 3

Algorithms == {"hot_score", "engagement_score", "time_decay", "hybrid"}
AlgorithmNames == Algorithms \cup {"unknown_algorithm"}

PostFields ==
    {"post_id", "likes", "comments", "shares", "upvotes", "downvotes",
     "timestamp", "base_score"}

EmptyMap == [k \in {} |-> 0]
Put(f, k, v) == [x \in DOMAIN f \cup {k} |-> IF x = k THEN v ELSE f[x]]
Without(f, k) == [x \in DOMAIN f \ {k} |-> f[x]]
Get(kwargs, k, default) == IF k \in DOMAIN kwargs THEN kwargs[k] ELSE default

-----------------------------------------------------------------------------
(* Post *)

\* base_score = likes + comments * 2 + shares * 3
BaseScore(p) == p.likes + p.comments * 2 + p.shares * 3

\* Post(post_id=post_id, **kwargs) raises TypeError for a keyword that is no field
PostAccepts(kwargs) == DOMAIN kwargs \subseteq (PostFields \ {"post_id"})

\* The dataclass __init__ with its defaults, then __post_init__
Post(post_id, kwargs, t) ==
    LET p == [post_id    |-> post_id,
              likes      |-> Get(kwargs, "likes", 0),
              comments   |-> Get(kwargs, "comments", 0),
              shares     |-> Get(kwargs, "shares", 0),
              upvotes    |-> Get(kwargs, "upvotes", 0),
              downvotes  |-> Get(kwargs, "downvotes", 0),
              timestamp  |-> Get(kwargs, "timestamp", t),
              base_score |-> Get(kwargs, "base_score", 0)]
    IN  [p EXCEPT !.base_score = BaseScore(p)]

-----------------------------------------------------------------------------
(* Scoring *)

Abs(n) == IF n < 0 THEN -n ELSE n
Max(a, b) == IF a >= b THEN a ELSE b
Min(a, b) == IF a <= b THEN a ELSE b

\* round(45000 * math.log10(n)), n = 1 .. 8
Log10Table == <<0, 13546, 21470, 27093, 31454, 35017, 38029, 40639>>
Log10(n) == Log10Table[n]

\* round(10^6 * math.exp(-k / 100)), k = 0, 20, 40, ... 1000
ExpTable ==
    <<1000000, 818731, 670320, 548812, 449329, 367879, 301194, 246597, 201897,
      165299, 135335, 110803, 90718, 74274, 60810, 49787, 40762, 33373, 27324,
      22371, 18316, 14996, 12277, 10052, 8230, 6738, 5517, 4517, 3698, 3028,
      2479, 2029, 1662, 1360, 1114, 912, 747, 611, 500, 410, 335, 275, 225, 184,
      151, 123, 101, 83, 68, 55, 45>>
\* math.exp(-k / 100); k a multiple of 20 (every product rate * elapsed is one)
ExpNeg(k) == ExpTable[(k \div 20) + 1]

hot_score(post, t) ==
    LET diff == post.upvotes - post.downvotes
        order == Log10(Max(Abs(diff), 1))
        sign == IF diff > 0 THEN 1 ELSE IF diff < 0 THEN -1 ELSE 0
        seconds == t - post.timestamp - EpochOffset
    IN  sign * order + seconds

engagement_score(post, t) ==
    LET total_engagement == post.likes + post.comments * 2 + post.shares * 3
        time_factor == t - post.timestamp + 1
    IN  (total_engagement * 1000000) \div time_factor

time_decay_score(post, decay_rate, t) ==
    LET time_elapsed == t - post.timestamp
    IN  post.base_score * ExpNeg(decay_rate * time_elapsed)

\* weights is <<>> for None and <<w>> for a dict w
DefaultWeights == [likes |-> 1, comments |-> 2, shares |-> 3, time_decay |-> 10]
WeightKeys == {"likes", "comments", "shares", "time_decay"}
HybridRaises(weights) == weights # <<>> /\ ~(WeightKeys \subseteq DOMAIN weights[1])
hybrid_score(post, weights, t) ==
    LET w == IF weights = <<>> THEN DefaultWeights ELSE weights[1]
        engagement == post.likes * w.likes + post.comments * w.comments
                      + post.shares * w.shares
        time_elapsed == t - post.timestamp
        time_factor == ExpNeg(w.time_decay * time_elapsed)
    IN  engagement * time_factor

\* The exception one pass of the loop body of _calculate_scores raises, "" for none
ScoreRaises(algorithm, kwargs) ==
    IF algorithm \notin Algorithms THEN "ValueError: Unknown algorithm"
    ELSE IF algorithm = "hybrid" /\ HybridRaises(Get(kwargs, "weights", <<>>))
         THEN "KeyError"
    ELSE ""

\* The if / elif chain of _calculate_scores for one post
Score(post, algorithm, kwargs, t) ==
    CASE algorithm = "hot_score" -> hot_score(post, t)
      [] algorithm = "engagement_score" -> engagement_score(post, t)
      [] algorithm = "time_decay" ->
            time_decay_score(post, Get(kwargs, "decay_rate", DefaultDecayRate), t)
      [] algorithm = "hybrid" -> hybrid_score(post, Get(kwargs, "weights", <<>>), t)

-----------------------------------------------------------------------------
(* Sorting lists of (score, post_id) tuples *)

\* A comparison that sorts the wrong way round
TupleLess_Reversed(x, y) == x[1] > y[1] \/ (x[1] = y[1] /\ IdOrd(x[2]) > IdOrd(y[2]))

\* The tuple comparison x < y of (score, post_id) pairs
TupleLess(x, y) == x[1] < y[1] \/ (x[1] = y[1] /\ IdOrd(x[2]) < IdOrd(y[2]))

RECURSIVE InsertDesc(_, _)
InsertDesc(x, s) ==
    IF s = <<>> THEN <<x>>
    ELSE IF TupleLess(Head(s), x) THEN <<x>> \o s
    ELSE <<Head(s)>> \o InsertDesc(x, Tail(s))

\* scores.sort(reverse=True): the pairs of one list differ in their post_id, so
\* the sorted list does not depend on the order the list had
RECURSIVE SortDesc(_)
SortDesc(s) == IF s = <<>> THEN <<>> ELSE InsertDesc(Head(s), SortDesc(Tail(s)))

\* s[:limit]
Slice(s, limit) ==
    LET n == IF limit >= 0 THEN Min(limit, Len(s)) ELSE Max(Len(s) + limit, 0)
    IN  SubSeq(s, 1, n)

\* The keys of a dict as a list (the order is not observable after the sort)
RECURSIVE KeyList(_)
KeyList(S) ==
    IF S = {} THEN <<>>
    ELSE LET k == CHOOSE x \in S : \A y \in S : IdOrd(x) <= IdOrd(y)
         IN  <<k>> \o KeyList(S \ {k})

-----------------------------------------------------------------------------
(* RankingEngine *)

\* get_ranked_posts changes the engine in the same way for every limit, and
\* get_post_rank for every post_id: ret.value holds the list returned for each
\* limit and ret.rank the rank returned for each post_id (0 is None).
\* ret.dropped: the algorithms whose cache entries the call cleared.
\* ret.found: the timestamp the call found cached for its algorithm, -1 for none.
Limits == {-1, 0, 1, DefaultLimit}
RankIds == PostIds \cup {"nonexistent"}

NoRet ==
    [op |-> "init", post_id |-> "", alg |-> "", kwargs |-> EmptyMap,
     batch |-> <<>>, raised |-> "", value |-> EmptyMap, rank |-> EmptyMap,
     stats |-> EmptyMap, dropped |-> {}, found |-> -1]

NoMutation == [op |-> "", raised |-> "", at |-> 0]

\* No get_ranked_posts is between its scoring and its cache write
NoPending == [alg |-> "", kwargs |-> EmptyMap, scores |-> <<>>, store |-> EmptyMap]

Step == steps < MaxSteps /\ steps' = steps + 1 /\ UNCHANGED <<svars, pending>>

\* An invalidation that drops the entry of the default algorithm alone
invalidate_cache_DefaultOnly ==
    /\ ranking_cache' = Without(ranking_cache, "hot_score")
    /\ cache_timestamps' = Without(cache_timestamps, "hot_score")

\* self.ranking_cache.clear(); self.cache_timestamps.clear()
invalidate_cache ==
    /\ ranking_cache' = EmptyMap
    /\ cache_timestamps' = EmptyMap

\* A validity test that never accepts an entry
is_cache_valid_Never(algorithm) == FALSE

\* A validity test that still accepts an entry that is exactly cache_ttl old
is_cache_valid_Inclusive(algorithm) ==
    IF algorithm \notin DOMAIN cache_timestamps THEN FALSE
    ELSE now - cache_timestamps[algorithm] <= cache_ttl

is_cache_valid(algorithm) ==
    IF algorithm \notin DOMAIN cache_timestamps THEN FALSE
    ELSE now - cache_timestamps[algorithm] < cache_ttl

\* The exception _calculate_scores raises: that of the first post, none on an
\* empty store, where the loop body never runs
CalculateRaises(algorithm, kwargs) ==
    IF DOMAIN posts = {} THEN "" ELSE ScoreRaises(algorithm, kwargs)

\* The list _calculate_scores builds when time.time() reads t
ScoresAt(algorithm, kwargs, t) ==
    LET ids == KeyList(DOMAIN posts)
    IN  [i \in 1..Len(ids) |-> <<Score(posts[ids[i]], algorithm, kwargs, t), ids[i]>>]

calculate_scores(algorithm, kwargs) == ScoresAt(algorithm, kwargs, now)

\* OptimizedRankingEngine._vectorized_calculate_scores: the exception it raises,
\* "" for none; an empty store returns [] before the algorithm is looked at
VectorizedRaises(algorithm, kwargs) ==
    IF DOMAIN posts = {} THEN ""
    ELSE IF algorithm \notin Algorithms THEN "ValueError: Unknown algorithm"
    ELSE IF algorithm = "hybrid" /\ HybridRaises(Get(kwargs, "weights", <<>>))
         THEN "KeyError"
    ELSE ""

\* One element of the scores array: the arithmetic of the four branches on the
\* arrays of counters, with time.time() read once for all posts
vectorized_score(post, algorithm, kwargs, t) ==
    LET time_elapsed == t - post.timestamp
    IN  CASE algorithm = "hot_score" ->
                LET votes_diff == post.upvotes - post.downvotes
                    order == Log10(Max(Abs(votes_diff), 1))
                    sign == IF votes_diff > 0 THEN 1 ELSE IF votes_diff < 0 THEN -1 ELSE 0
                    seconds == time_elapsed - EpochOffset
                IN  sign * order + seconds
          [] algorithm = "engagement_score" ->
                LET engagement == post.likes + post.comments * 2 + post.shares * 3
                IN  (engagement * 1000000) \div (time_elapsed + 1)
          [] algorithm = "time_decay" ->
                LET decay_rate == Get(kwargs, "decay_rate", VectorizedDecayRate)
                    base_scores == post.likes + post.comments * 2 + post.shares * 3
                IN  base_scores * ExpNeg(decay_rate * time_elapsed)
          [] algorithm = "hybrid" ->
                LET weights == Get(kwargs, "weights", <<DefaultWeights>>)[1]
                    engagement == post.likes * weights.likes
                                  + post.comments * weights.comments
                                  + post.shares * weights.shares
                    time_factor == ExpNeg(weights.time_decay * time_elapsed)
                IN  engagement * time_factor

\* The list of (score, post_id) tuples it returns when time.time() reads now
vectorized_calculate_scores(algorithm, kwargs) ==
    LET ids == KeyList(DOMAIN posts)
    IN  [i \in 1..Len(ids) |->
            <<vectorized_score(posts[ids[i]], algorithm, kwargs, now), ids[i]>>]

\* The result list built from cached_scores[:limit]
Rows(cached_scores, limit) ==
    LET top == Slice(cached_scores, limit)
    IN  [i \in 1..Len(top) |->
            LET post == posts[top[i][2]]
            IN  [rank |-> i, post_id |-> top[i][2], score |-> top[i][1],
                 likes |-> post.likes, comments |-> post.comments,
                 shares |-> post.shares, upvotes |-> post.upvotes,
                 downvotes |-> post.downvotes, timestamp |-> post.timestamp]]

\* The timestamp cached for the algorithm when the call starts, -1 for none
FoundStamp(algorithm) ==
    IF algorithm \in DOMAIN cache_timestamps THEN cache_timestamps[algorithm] ELSE -1

\* A get_ranked_posts whose cache holds the ranking it computed last and no other
RankedOutcome_SingleSlot(algorithm, kwargs) ==
    IF is_cache_valid(algorithm)
    THEN [raised |-> "", cache |-> ranking_cache, stamps |-> cache_timestamps,
          cached_scores |-> ranking_cache[algorithm]]
    ELSE IF CalculateRaises(algorithm, kwargs) # ""
    THEN [raised |-> CalculateRaises(algorithm, kwargs), cache |-> ranking_cache,
          stamps |-> cache_timestamps, cached_scores |-> <<>>]
    ELSE LET scores == SortDesc(calculate_scores(algorithm, kwargs))
         IN  [raised |-> "", cache |-> Put(EmptyMap, algorithm, scores),
              stamps |-> Put(EmptyMap, algorithm, now),
              cached_scores |-> scores]

\* A get_ranked_posts that caches the scores it has, none, when the scoring raises
RankedOutcome_CachesOnRaise(algorithm, kwargs) ==
    IF is_cache_valid(algorithm)
    THEN [raised |-> "", cache |-> ranking_cache, stamps |-> cache_timestamps,
          cached_scores |-> ranking_cache[algorithm]]
    ELSE IF CalculateRaises(algorithm, kwargs) # ""
    THEN [raised |-> CalculateRaises(algorithm, kwargs),
          cache |-> Put(ranking_cache, algorithm, <<>>),
          stamps |-> Put(cache_timestamps, algorithm, now), cached_scores |-> <<>>]
    ELSE LET scores == SortDesc(calculate_scores(algorithm, kwargs))
         IN  [raised |-> "", cache |-> Put(ranking_cache, algorithm, scores),
              stamps |-> Put(cache_timestamps, algorithm, now),
              cached_scores |-> scores]

\* What get_ranked_posts does to the cache, and the cached_scores it goes on with
\* or the exception it raises
RankedOutcome(algorithm, kwargs) ==
    IF is_cache_valid(algorithm)
    THEN [raised |-> "", cache |-> ranking_cache, stamps |-> cache_timestamps,
          cached_scores |-> ranking_cache[algorithm]]
    ELSE IF CalculateRaises(algorithm, kwargs) # ""
    THEN [raised |-> CalculateRaises(algorithm, kwargs), cache |-> ranking_cache,
          stamps |-> cache_timestamps, cached_scores |-> <<>>]
    ELSE LET scores == SortDesc(calculate_scores(algorithm, kwargs))
         IN  [raised |-> "", cache |-> Put(ranking_cache, algorithm, scores),
              stamps |-> Put(cache_timestamps, algorithm, now),
              cached_scores |-> scores]

\* add_post that does not look for an existing id
add_post_Overwrite(post_id, kwargs) ==
    /\ posts' = Put(posts, post_id, Post(post_id, Without(kwargs, "bogus"), now))
    /\ invalidate_cache
    /\ ret' = [NoRet EXCEPT !.op = "add_post", !.post_id = post_id,
                  !.kwargs = kwargs, !.dropped = DOMAIN ranking_cache]
    /\ mutated' = [op |-> "add_post", raised |-> "", at |-> now]
    /\ Step
    /\ UNCHANGED now

add_post(post_id, kwargs) ==
    /\ IF post_id \in DOMAIN posts
       THEN /\ ret' = [NoRet EXCEPT !.op = "add_post", !.post_id = post_id,
                          !.kwargs = kwargs, !.raised = "ValueError: already exists"]
            /\ UNCHANGED <<posts, ranking_cache, cache_timestamps, mutated>>
       ELSE IF ~PostAccepts(kwargs)
       THEN /\ ret' = [NoRet EXCEPT !.op = "add_post", !.post_id = post_id,
                          !.kwargs = kwargs, !.raised = "TypeError"]
            /\ UNCHANGED <<posts, ranking_cache, cache_timestamps, mutated>>
       ELSE /\ posts' = Put(posts, post_id, Post(post_id, kwargs, now))
            /\ invalidate_cache
            /\ ret' = [NoRet EXCEPT !.op = "add_post", !.post_id = post_id,
                          !.kwargs = kwargs, !.dropped = DOMAIN ranking_cache]
            /\ mutated' = [op |-> "add_post", raised |-> "", at |-> now]
    /\ Step
    /\ UNCHANGED now

\* An update that builds the counters anew: a counter that is not named becomes 0
SetAttrs_Replace(post, kwargs) ==
    [f \in DOMAIN post |->
        IF f \in DOMAIN kwargs THEN kwargs[f]
        ELSE IF f \in {"post_id", "timestamp"} THEN post[f] ELSE 0]

\* for key, value in kwargs.items(): if hasattr(post, key): setattr(post, key, value)
SetAttrs(post, kwargs) ==
    [f \in DOMAIN post |-> IF f \in DOMAIN kwargs THEN kwargs[f] ELSE post[f]]

\* The setattr loop without the recalculation of the base score
UpdatedPost_NoRecalc(post, kwargs) == SetAttrs(post, kwargs)

\* The body of update_post on the stored post, base score recalculated
UpdatedPost(post, kwargs) ==
    LET p == SetAttrs(post, kwargs)
    IN  [p EXCEPT !.base_score = BaseScore(p)]

\* update_post that leaves the cache as it is
update_post_NoInvalidate(post_id, kwargs) ==
    /\ IF post_id \notin DOMAIN posts
       THEN /\ ret' = [NoRet EXCEPT !.op = "update_post", !.post_id = post_id,
                          !.kwargs = kwargs, !.raised = "ValueError: not found"]
            /\ UNCHANGED <<posts, mutated>>
       ELSE /\ posts' = [posts EXCEPT ![post_id] = UpdatedPost(posts[post_id], kwargs)]
            /\ ret' = [NoRet EXCEPT !.op = "update_post", !.post_id = post_id,
                          !.kwargs = kwargs]
            /\ mutated' = [op |-> "update_post", raised |-> "", at |-> now]
    /\ Step
    /\ UNCHANGED <<now, ranking_cache, cache_timestamps>>

\* update_post that clears the cache before it looks for the post
update_post_InvalidateFirst(post_id, kwargs) ==
    /\ invalidate_cache
    /\ IF post_id \notin DOMAIN posts
       THEN /\ ret' = [NoRet EXCEPT !.op = "update_post", !.post_id = post_id,
                          !.kwargs = kwargs, !.raised = "ValueError: not found"]
            /\ UNCHANGED <<posts, mutated>>
       ELSE /\ posts' = [posts EXCEPT ![post_id] = UpdatedPost(posts[post_id], kwargs)]
            /\ ret' = [NoRet EXCEPT !.op = "update_post", !.post_id = post_id,
                          !.kwargs = kwargs, !.dropped = DOMAIN ranking_cache]
            /\ mutated' = [op |-> "update_post", raised |-> "", at |-> now]
    /\ Step
    /\ UNCHANGED now

update_post(post_id, kwargs) ==
    /\ IF post_id \notin DOMAIN posts
       THEN /\ ret' = [NoRet EXCEPT !.op = "update_post", !.post_id = post_id,
                          !.kwargs = kwargs, !.raised = "ValueError: not found"]
            /\ UNCHANGED <<posts, ranking_cache, cache_timestamps, mutated>>
       ELSE /\ posts' = [posts EXCEPT ![post_id] = UpdatedPost(posts[post_id], kwargs)]
            /\ invalidate_cache
            /\ ret' = [NoRet EXCEPT !.op = "update_post", !.post_id = post_id,
                          !.kwargs = kwargs, !.dropped = DOMAIN ranking_cache]
            /\ mutated' = [op |-> "update_post", raised |-> "", at |-> now]
    /\ Step
    /\ UNCHANGED now

get_ranked_posts(algorithm, kwargs) ==
    LET out == RankedOutcome(algorithm, kwargs)
    IN  /\ Step
        /\ ranking_cache' = out.cache
        /\ cache_timestamps' = out.stamps
        /\ ret' = [NoRet EXCEPT !.op = "get_ranked_posts", !.alg = algorithm,
                      !.kwargs = kwargs, !.raised = out.raised,
                      !.found = FoundStamp(algorithm),
                      !.value = IF out.raised # "" THEN EmptyMap
                                ELSE [limit \in Limits |->
                                         Rows(out.cached_scores, limit)]]
        /\ UNCHANGED <<posts, now, mutated>>

\* get_ranked_posts as two steps of one thread, for callers that share the
\* engine without a lock: first the cache test and the scoring and sorting ...
begin_ranking(algorithm, kwargs) ==
    /\ pending = NoPending
    /\ ~is_cache_valid(algorithm)
    /\ CalculateRaises(algorithm, kwargs) = ""
    /\ pending' = [alg |-> algorithm, kwargs |-> kwargs,
                   scores |-> SortDesc(calculate_scores(algorithm, kwargs)),
                   store |-> posts]
    /\ UNCHANGED <<posts, ranking_cache, cache_timestamps, now, ret, mutated, steps, svars>>

\* A second step that scores again when the store is no longer the one it scored
finish_ranking_Rescores ==
    LET scores == IF posts = pending.store THEN pending.scores
                  ELSE SortDesc(calculate_scores(pending.alg, pending.kwargs))
    IN  /\ pending # NoPending
        /\ steps < MaxSteps
        /\ steps' = steps + 1
        /\ ranking_cache' = Put(ranking_cache, pending.alg, scores)
        /\ cache_timestamps' = Put(cache_timestamps, pending.alg, now)
        /\ ret' = [NoRet EXCEPT !.op = "get_ranked_posts", !.alg = pending.alg,
                      !.kwargs = pending.kwargs,
                      !.value = [limit \in Limits |-> Rows(scores, limit)]]
        /\ pending' = NoPending
        /\ UNCHANGED <<posts, now, mutated, svars>>

\* ... then the cache write, with the time read anew, and the result list
finish_ranking ==
    /\ pending # NoPending
    /\ steps < MaxSteps
    /\ steps' = steps + 1
    /\ ranking_cache' = Put(ranking_cache, pending.alg, pending.scores)
    /\ cache_timestamps' = Put(cache_timestamps, pending.alg, now)
    /\ ret' = [NoRet EXCEPT !.op = "get_ranked_posts", !.alg = pending.alg,
                  !.kwargs = pending.kwargs,
                  !.value = [limit \in Limits |-> Rows(pending.scores, limit)]]
    /\ pending' = NoPending
    /\ UNCHANGED <<posts, now, mutated, svars>>

\* A search that answers the position past the end when it does not find the id
RankIn_PastEnd(ranked_posts, post_id) ==
    IF \E i \in 1..Len(ranked_posts) : ranked_posts[i].post_id = post_id
    THEN ranked_posts[CHOOSE i \in 1..Len(ranked_posts) :
                          ranked_posts[i].post_id = post_id].rank
    ELSE Len(ranked_posts) + 1

\* The rank of post_id in the list get_ranked_posts returned, 0 for None
RankIn(ranked_posts, post_id) ==
    IF \E i \in 1..Len(ranked_posts) : ranked_posts[i].post_id = post_id
    THEN ranked_posts[CHOOSE i \in 1..Len(ranked_posts) :
                          /\ ranked_posts[i].post_id = post_id
                          /\ \A j \in 1..(i - 1) : ranked_posts[j].post_id # post_id].rank
    ELSE 0

get_post_rank(algorithm, kwargs) ==
    LET out == RankedOutcome(algorithm, kwargs)
        ranked_posts == Rows(out.cached_scores, Cardinality(DOMAIN posts))
    IN  /\ Step
        /\ ranking_cache' = out.cache
        /\ cache_timestamps' = out.stamps
        /\ ret' = [NoRet EXCEPT !.op = "get_post_rank", !.alg = algorithm,
                      !.kwargs = kwargs, !.raised = out.raised,
                      !.found = FoundStamp(algorithm),
                      !.rank = IF out.raised # "" THEN EmptyMap
                               ELSE [post_id \in RankIds |->
                                        RankIn(ranked_posts, post_id)]]
        /\ UNCHANGED <<posts, now, mutated>>

\* What the loop of batch_add_posts raises at one entry, "" for none
EntryRaises(post_data) ==
    IF "post_id" \notin DOMAIN post_data THEN "KeyError"
    ELSE IF ~PostAccepts(Without(post_data, "post_id")) THEN "TypeError"
    ELSE ""

\* An insertion that keeps the post an id already has
BatchInsert_KeepExisting(store, post_data) ==
    IF post_data.post_id \in DOMAIN store THEN store
    ELSE Put(store, post_data.post_id,
             Post(post_data.post_id, Without(post_data, "post_id"), now))

\* One pass of the loop of batch_add_posts: self.posts[post_id] = Post(...)
BatchInsert(store, post_data) ==
    Put(store, post_data.post_id,
        Post(post_data.post_id, Without(post_data, "post_id"), now))

\* The store after the first n entries of posts_data have been inserted
RECURSIVE BatchStore(_, _, _)
BatchStore(store, posts_data, n) ==
    IF n = 0 THEN store
    ELSE BatchInsert(BatchStore(store, posts_data, n - 1), posts_data[n])

\* The index of the first entry at which the loop raises, 0 if none does
FirstBad(posts_data) ==
    IF \E i \in 1..Len(posts_data) : EntryRaises(posts_data[i]) # ""
    THEN CHOOSE i \in 1..Len(posts_data) :
            /\ EntryRaises(posts_data[i]) # ""
            /\ \A j \in 1..(i - 1) : EntryRaises(posts_data[j]) = ""
    ELSE 0

batch_add_posts(posts_data) ==
    LET bad == FirstBad(posts_data)
    IN  /\ IF bad = 0
           THEN /\ posts' = BatchStore(posts, posts_data, Len(posts_data))
                /\ invalidate_cache
                /\ ret' = [NoRet EXCEPT !.op = "batch_add_posts", !.batch = posts_data,
                              !.dropped = DOMAIN ranking_cache]
                /\ mutated' = [op |-> "batch_add_posts", raised |-> "", at |-> now]
           ELSE /\ posts' = BatchStore(posts, posts_data, bad - 1)
                /\ UNCHANGED <<ranking_cache, cache_timestamps>>
                /\ ret' = [NoRet EXCEPT !.op = "batch_add_posts", !.batch = posts_data,
                              !.raised = EntryRaises(posts_data[bad])]
                /\ mutated' = IF bad = 1 THEN mutated
                              ELSE [op |-> "batch_add_posts",
                                    raised |-> EntryRaises(posts_data[bad]),
                                    at |-> now]
        /\ Step
        /\ UNCHANGED now

RECURSIVE SumOver(_, _)
SumOver(S, field) ==
    IF S = {} THEN 0
    ELSE LET k == CHOOSE x \in S : TRUE
         IN  posts[k][field] + SumOver(S \ {k}, field)

\* Statistics whose averages are whole-number quotients
Stats_FloorDivision ==
    LET n_posts == Cardinality(DOMAIN posts)
        total_likes == SumOver(DOMAIN posts, "likes")
        total_comments == SumOver(DOMAIN posts, "comments")
        total_shares == SumOver(DOMAIN posts, "shares")
        Avg(total) == IF n_posts > 0 THEN (total \div n_posts) * 1000000 ELSE 0
    IN  [total_posts |-> n_posts,
         total_likes |-> total_likes,
         total_comments |-> total_comments,
         total_shares |-> total_shares,
         avg_likes_per_post |-> Avg(total_likes),
         avg_comments_per_post |-> Avg(total_comments),
         avg_shares_per_post |-> Avg(total_shares),
         cache_size |-> Cardinality(DOMAIN ranking_cache),
         memory_usage_mb |-> n_posts * 200 + Cardinality(DOMAIN ranking_cache) * 1000]

\* The averages are in units of 1e-6, memory_usage_mb in units of 2^-20 MB
Stats ==
    LET n_posts == Cardinality(DOMAIN posts)
        total_likes == SumOver(DOMAIN posts, "likes")
        total_comments == SumOver(DOMAIN posts, "comments")
        total_shares == SumOver(DOMAIN posts, "shares")
        Avg(total) == IF n_posts > 0 THEN (total * 1000000) \div n_posts ELSE 0
    IN  [total_posts |-> n_posts,
         total_likes |-> total_likes,
         total_comments |-> total_comments,
         total_shares |-> total_shares,
         avg_likes_per_post |-> Avg(total_likes),
         avg_comments_per_post |-> Avg(total_comments),
         avg_shares_per_post |-> Avg(total_shares),
         cache_size |-> Cardinality(DOMAIN ranking_cache),
         memory_usage_mb |-> n_posts * 200 + Cardinality(DOMAIN ranking_cache) * 1000]

get_stats ==
    /\ Step
    /\ ret' = [NoRet EXCEPT !.op = "get_stats", !.stats = Stats]
    /\ UNCHANGED <<posts, ranking_cache, cache_timestamps, now, mutated>>

\* time.time() moves on between two calls
Tick ==
    /\ Step
    /\ \E d \in TickSteps : now + d <= MaxNow /\ now' = now + d
    /\ ret' = [NoRet EXCEPT !.op = "tick"]
    /\ UNCHANGED <<posts, ranking_cache, cache_timestamps, mutated>>

-----------------------------------------------------------------------------
(* heapq on a list of (score, post) tuples; positions count from 0 as in heapq *)

\* x < y on (score, post) tuples: "T", "F", or "E" for the TypeError of
\* post < post, which the comparison reaches when the scores are equal and the
\* posts are not (Post is a dataclass with __eq__ and without __lt__)
TupleCmp(x, y) ==
    IF x[1] # y[1] THEN (IF x[1] < y[1] THEN "T" ELSE "F")
    ELSE IF x[2] = y[2] THEN "F"
    ELSE "E"

At(heap, pos) == heap[pos + 1]
SetAt(heap, pos, item) == [heap EXCEPT ![pos + 1] = item]

\* heapq._siftdown(heap, startpos, pos) with newitem = heap[pos]
RECURSIVE siftdown(_, _, _, _)
siftdown(heap, newitem, startpos, pos) ==
    IF pos > startpos
    THEN LET parentpos == (pos - 1) \div 2
             parent == At(heap, parentpos)
             c == TupleCmp(newitem, parent)
         IN  IF c = "E" THEN [heap |-> heap, raised |-> "TypeError"]
             ELSE IF c = "T"
             THEN siftdown(SetAt(heap, pos, parent), newitem, startpos, parentpos)
             ELSE [heap |-> SetAt(heap, pos, newitem), raised |-> ""]
    ELSE [heap |-> SetAt(heap, pos, newitem), raised |-> ""]

\* heapq._siftup(heap, pos): the smaller child moves up until a leaf is reached,
\* then newitem is sifted down from there
RECURSIVE siftup(_, _, _, _)
siftup(heap, newitem, startpos, pos) ==
    LET endpos == Len(heap)
        childpos == 2 * pos + 1
        rightpos == childpos + 1
    IN  IF childpos < endpos
        THEN LET c == IF rightpos < endpos
                      THEN TupleCmp(At(heap, childpos), At(heap, rightpos))
                      ELSE "T"
                 child == IF rightpos < endpos /\ c # "T" THEN rightpos ELSE childpos
             IN  IF c = "E" THEN [heap |-> heap, raised |-> "TypeError"]
                 ELSE siftup(SetAt(heap, pos, At(heap, child)), newitem, startpos, child)
        ELSE siftdown(SetAt(heap, pos, newitem), newitem, startpos, pos)

heappush(heap, item) == siftdown(Append(heap, item), item, 0, Len(heap))

heappushpop(heap, item) ==
    IF heap = <<>> THEN [heap |-> heap, raised |-> ""]
    ELSE LET c == TupleCmp(At(heap, 0), item)
         IN  IF c = "E" THEN [heap |-> heap, raised |-> "TypeError"]
             ELSE IF c = "T" THEN siftup(SetAt(heap, 0, item), item, 0, 0)
             ELSE [heap |-> heap, raised |-> ""]

\* sorted(heap, reverse=True) raises when it compares two tuples of equal score
\* and unequal posts, and a sort compares every two such tuples of its input
SortedRaises(heap) ==
    \E i, j \in 1..Len(heap) : TupleCmp(heap[i], heap[j]) = "E"

RECURSIVE InsertByScore(_, _)
InsertByScore(x, s) ==
    IF s = <<>> THEN <<x>>
    ELSE IF Head(s)[1] < x[1] THEN <<x>> \o s
    ELSE <<Head(s)>> \o InsertByScore(x, Tail(s))

\* sorted(heap, reverse=True) when it does not raise: tuples of equal score are equal
RECURSIVE SortedDesc(_)
SortedDesc(heap) ==
    IF heap = <<>> THEN <<>> ELSE InsertByScore(Head(heap), SortedDesc(Tail(heap)))

-----------------------------------------------------------------------------
(* StreamingRankingEngine *)

NoResult ==
    [raised |-> "", returned |-> FALSE, top_posts |-> <<>>,
     total_posts_processed |-> 0, processing_time_seconds |-> 0,
     algorithm |-> "", batch_size |-> 0]

\* RankingEngine(): an empty store and an empty cache
NewEngine ==
    [posts |-> EmptyMap, ranking_cache |-> EmptyMap, cache_timestamps |-> EmptyMap]

StreamIdle ==
    /\ pc = "idle"
    /\ source = <<>>
    /\ it_pos = 0
    /\ pulls = 0
    /\ s_algorithm = ""
    /\ s_top_k = 0
    /\ s_kwargs = EmptyMap
    /\ batch = <<>>
    /\ batch_i = 0
    /\ min_heap = <<>>
    /\ total_posts = 0
    /\ batch_count = 0
    /\ start_time = 0
    /\ s_ret = NoResult
    /\ base_engine = NewEngine
    /\ earlier = EmptyMap

\* A selector whose scoring goes through the cache of the resident engine
UnchangedEngine_SharedCache ==
    /\ ranking_cache' = EmptyMap
    /\ cache_timestamps' = EmptyMap
    /\ UNCHANGED <<posts, ret, mutated, steps, base_engine, pending>>

\* No step of rank_posts_streaming touches a RankingEngine
UnchangedEngine ==
    UNCHANGED <<posts, ranking_cache, cache_timestamps, ret, mutated, steps, base_engine,
                pending>>

\* None in place of a post
NonePost == EmptyMap

\* The exception _calculate_score raises on one element, "" for none
StreamScoreRaises(post, algorithm, kwargs) ==
    IF algorithm \notin Algorithms THEN "ValueError: Unknown algorithm"
    ELSE IF post = NonePost THEN "AttributeError"
    ELSE IF algorithm = "hybrid" /\ HybridRaises(Get(kwargs, "weights", <<>>))
         THEN "KeyError"
    ELSE ""

\* A dispatch whose decay_rate default is 0.1, that of the vectorized scorer
calculate_score_VectorDefault(post, algorithm, kwargs) ==
    CASE algorithm = "hot_score" -> hot_score(post, now)
      [] algorithm = "engagement_score" -> engagement_score(post, now)
      [] algorithm = "time_decay" ->
            time_decay_score(post, Get(kwargs, "decay_rate", 10), now)
      [] algorithm = "hybrid" -> hybrid_score(post, Get(kwargs, "weights", <<>>), now)

\* StreamingRankingEngine._calculate_score: the same four scorers of base_engine
calculate_score(post, algorithm, kwargs) ==
    CASE algorithm = "hot_score" -> hot_score(post, now)
      [] algorithm = "engagement_score" -> engagement_score(post, now)
      [] algorithm = "time_decay" ->
            time_decay_score(post, Get(kwargs, "decay_rate", DefaultDecayRate), now)
      [] algorithm = "hybrid" -> hybrid_score(post, Get(kwargs, "weights", <<>>), now)

\* A call whose heap is that of the call before on the instance
rank_posts_streaming_KeepsHeap(post_iterator, algorithm, top_k, kwargs) ==
    /\ pc \in {"idle", "returned"}
    /\ pc' = "fill"
    /\ source' = post_iterator
    /\ it_pos' = 0
    /\ pulls' = 0
    /\ s_algorithm' = algorithm
    /\ s_top_k' = top_k
    /\ s_kwargs' = kwargs
    /\ start_time' = now
    /\ total_posts' = 0
    /\ batch_count' = 0
    /\ batch' = <<>>
    /\ batch_i' = 0
    /\ s_ret' = NoResult
    /\ UNCHANGED <<batch_size, now, min_heap>>
    /\ UNCHANGED earlier
    /\ UnchangedEngine

\* The call: the locals before the while loop
rank_posts_streaming(post_iterator, algorithm, top_k, kwargs) ==
    /\ pc \in {"idle", "returned"}
    /\ pc' = "fill"
    /\ source' = post_iterator
    /\ it_pos' = 0
    /\ pulls' = 0
    /\ s_algorithm' = algorithm
    /\ s_top_k' = top_k
    /\ s_kwargs' = kwargs
    /\ start_time' = now
    /\ min_heap' = <<>>
    /\ total_posts' = 0
    /\ batch_count' = 0
    /\ batch' = <<>>
    /\ batch_i' = 0
    /\ s_ret' = NoResult
    /\ UNCHANGED <<batch_size, now>>
    /\ UNCHANGED earlier
    /\ UnchangedEngine

\* A loop that also breaks on a batch that is not full, before it is scored
AfterFill_BreakOnShort(new_batch) ==
    IF new_batch = <<>> \/ Len(new_batch) < batch_size
    THEN pc' = "sort" /\ UNCHANGED batch_count
    ELSE pc' = "score" /\ batch_count' = batch_count + 1

\* After the for loop over range(batch_size): if not batch: break
AfterFill(new_batch) ==
    IF new_batch = <<>>
    THEN pc' = "sort" /\ UNCHANGED batch_count
    ELSE pc' = "score" /\ batch_count' = batch_count + 1

\* A pass that hands each post to the scoring loop as soon as it is pulled
PullPost_ScoresAtOnce ==
    /\ pc = "fill"
    /\ Len(batch) < batch_size
    /\ pulls' = pulls + 1
    /\ IF it_pos < Len(source)
       THEN /\ batch' = Append(batch, source[it_pos + 1])
            /\ it_pos' = it_pos + 1
            /\ total_posts' = total_posts + 1
            /\ AfterFill(batch')
       ELSE /\ UNCHANGED <<batch, it_pos, total_posts>>
            /\ AfterFill(batch)
    /\ UNCHANGED <<batch_size, source, s_algorithm, s_top_k, s_kwargs, batch_i,
                   min_heap, start_time, s_ret, now>>
    /\ UNCHANGED earlier
    /\ UnchangedEngine

\* A pass that goes on to the next pass when next(post_iterator) raises
\* StopIteration and the batch is not full
PullPost_NoBreak ==
    /\ pc = "fill"
    /\ Len(batch) < batch_size
    /\ pulls' = pulls + 1
    /\ IF it_pos < Len(source)
       THEN /\ batch' = Append(batch, source[it_pos + 1])
            /\ it_pos' = it_pos + 1
            /\ total_posts' = total_posts + 1
            /\ IF Len(batch') < batch_size
               THEN UNCHANGED <<pc, batch_count>>
               ELSE AfterFill(batch')
       ELSE /\ UNCHANGED <<batch, it_pos, total_posts>>
            /\ IF pulls' % batch_size # 0
               THEN UNCHANGED <<pc, batch_count>>
               ELSE AfterFill(batch)
    /\ UNCHANGED <<batch_size, source, s_algorithm, s_top_k, s_kwargs, batch_i,
                   min_heap, start_time, s_ret, now>>
    /\ UNCHANGED earlier
    /\ UnchangedEngine

\* One pass of for _ in range(self.batch_size): next(post_iterator) yields a
\* post, or raises StopIteration and the loop breaks
PullPost ==
    /\ pc = "fill"
    /\ Len(batch) < batch_size
    /\ pulls' = pulls + 1
    /\ IF it_pos < Len(source)
       THEN /\ batch' = Append(batch, source[it_pos + 1])
            /\ it_pos' = it_pos + 1
            /\ total_posts' = total_posts + 1
            /\ IF Len(batch') < batch_size
               THEN UNCHANGED <<pc, batch_count>>
               ELSE AfterFill(batch')
       ELSE /\ UNCHANGED <<batch, it_pos, total_posts>>
            /\ AfterFill(batch)
    /\ UNCHANGED <<batch_size, source, s_algorithm, s_top_k, s_kwargs, batch_i,
                   min_heap, start_time, s_ret, now>>
    /\ UNCHANGED earlier
    /\ UnchangedEngine

\* range(self.batch_size) is empty: the batch stays empty and the while loop breaks
EmptyRange ==
    /\ pc = "fill"
    /\ batch_size <= 0
    /\ AfterFill(batch)
    /\ UNCHANGED <<batch_size, source, it_pos, pulls, s_algorithm, s_top_k, s_kwargs,
                   batch, batch_i, min_heap, total_posts, start_time, s_ret, now>>
    /\ UNCHANGED earlier
    /\ UnchangedEngine

\* A selection that at a full heap puts the new post in place of the lowest one,
\* whatever its score (heapq.heapreplace)
Keep_Replace(heap, top_k, item) ==
    IF Len(heap) < top_k THEN heappush(heap, item)
    ELSE IF heap = <<>> THEN [heap |-> heap, raised |-> ""]
    ELSE siftup(SetAt(heap, 0, item), item, 0, 0)

\* A selection that pushes every post, full heap or not
Keep_AlwaysPush(heap, top_k, item) == heappush(heap, item)

\* A selection that drops every post that arrives at a full heap
Keep_DropNew(heap, top_k, item) ==
    IF Len(heap) < top_k THEN heappush(heap, item) ELSE [heap |-> heap, raised |-> ""]

\* The heap after the if / else on len(min_heap) < top_k
Keep(heap, top_k, item) ==
    IF Len(heap) < top_k THEN heappush(heap, item) ELSE heappushpop(heap, item)

\* A scoring loop that skips an element whose scoring raises and goes on
ScorePost_SkipsUnscorable ==
    /\ pc = "score"
    /\ LET post == batch[batch_i + 1]
           raises == StreamScoreRaises(post, s_algorithm, s_kwargs)
           kept == IF raises # "" THEN [heap |-> min_heap, raised |-> ""]
                   ELSE Keep(min_heap, s_top_k,
                             <<calculate_score(post, s_algorithm, s_kwargs), post>>)
       IN  IF kept.raised # ""
           THEN /\ pc' = "raised"
                /\ s_ret' = [NoResult EXCEPT !.raised = kept.raised]
                /\ UNCHANGED <<batch, batch_i, min_heap>>
           ELSE /\ min_heap' = kept.heap
                /\ UNCHANGED s_ret
                /\ IF batch_i + 1 < Len(batch)
                   THEN batch_i' = batch_i + 1 /\ UNCHANGED <<pc, batch>>
                   ELSE batch_i' = 0 /\ batch' = <<>> /\ pc' = "fill"
    /\ UNCHANGED <<batch_size, source, it_pos, pulls, s_algorithm, s_top_k, s_kwargs,
                   total_posts, batch_count, start_time, now>>
    /\ UNCHANGED earlier
    /\ UnchangedEngine

\* One pass of for post in batch; an exception leaves through except: raise.
\* After the last post of the batch the while loop starts its next batch.
ScorePost ==
    /\ pc = "score"
    /\ LET post == batch[batch_i + 1]
           raises == StreamScoreRaises(post, s_algorithm, s_kwargs)
       IN  IF raises # ""
           THEN /\ pc' = "raised"
                /\ s_ret' = [NoResult EXCEPT !.raised = raises]
                /\ UNCHANGED <<batch, batch_i, min_heap>>
           ELSE LET score == calculate_score(post, s_algorithm, s_kwargs)
                    kept == Keep(min_heap, s_top_k, <<score, post>>)
                IN  IF kept.raised # ""
                    THEN /\ pc' = "raised"
                         /\ s_ret' = [NoResult EXCEPT !.raised = kept.raised]
                         /\ UNCHANGED <<batch, batch_i, min_heap>>
                    ELSE /\ min_heap' = kept.heap
                         /\ UNCHANGED s_ret
                         /\ IF batch_i + 1 < Len(batch)
                            THEN batch_i' = batch_i + 1 /\ UNCHANGED <<pc, batch>>
                            ELSE batch_i' = 0 /\ batch' = <<>> /\ pc' = "fill"
    /\ UNCHANGED <<batch_size, source, it_pos, pulls, s_algorithm, s_top_k, s_kwargs,
                   total_posts, batch_count, start_time, now>>
    /\ UNCHANGED earlier
    /\ UnchangedEngine

\* top_posts = sorted(min_heap, reverse=True) and the result
SortAndReturn ==
    /\ pc = "sort"
    /\ IF SortedRaises(min_heap)
       THEN /\ pc' = "raised"
            /\ s_ret' = [NoResult EXCEPT !.raised = "TypeError"]
       ELSE /\ pc' = "done"
            /\ s_ret' = [raised |-> "", returned |-> TRUE,
                         top_posts |-> SortedDesc(min_heap),
                         total_posts_processed |-> total_posts,
                         processing_time_seconds |-> now - start_time,
                         algorithm |-> s_algorithm,
                         batch_size |-> batch_size]
    /\ UNCHANGED <<batch_size, source, it_pos, pulls, s_algorithm, s_top_k, s_kwargs,
                   batch, batch_i, min_heap, total_posts, batch_count, start_time, now>>
    /\ UNCHANGED earlier
    /\ UnchangedEngine

\* The arguments of the call that is running or has ended
CallKey == <<source, s_algorithm, s_top_k, s_kwargs>>

\* The call is over, by return or by raise, and the caller may call again; the
\* caller keeps what the first call with each of watched's arguments gave
ReturnToCaller(watched) ==
    /\ pc \in {"done", "raised"}
    /\ pc' = "returned"
    /\ earlier' = IF CallKey \in watched /\ CallKey \notin DOMAIN earlier
                  THEN Put(earlier, CallKey, s_ret)
                  ELSE earlier
    /\ UNCHANGED <<batch_size, source, it_pos, pulls, s_algorithm, s_top_k, s_kwargs,
                   batch, batch_i, min_heap, total_posts, batch_count, start_time,
                   s_ret, now>>
    /\ UnchangedEngine

\* time.time() moves on while rank_posts_streaming runs
StreamTick ==
    /\ pc \in {"fill", "score", "sort"}
    /\ \E d \in TickSteps : now + d <= MaxStreamNow /\ now' = now + d
    /\ UNCHANGED svars
    /\ UnchangedEngine

-----------------------------------------------------------------------------
(* The calls the model makes *)

AddKwargs ==
    { EmptyMap,
      [likes |-> 1, comments |-> 1, upvotes |-> 2, base_score |-> 9],
      [bogus |-> 1] }

UpdateKwargs ==
    { [likes |-> 2, base_score |-> 0],
      [shares |-> 1, downvotes |-> 3, timestamp |-> 0],
      [bogus |-> 1] }

BatchInputs ==
    { <<>>,
      <<[post_id |-> "a", likes |-> 1], [post_id |-> "a", likes |-> 3, shares |-> 1]>>,
      <<[post_id |-> "a", likes |-> 2, base_score |-> 1],
        [post_id |-> "b", comments |-> 2, timestamp |-> 0]>>,
      <<[post_id |-> "b", upvotes |-> 1], [likes |-> 1]>>,
      <<[post_id |-> "a", comments |-> 3], [post_id |-> "b", bogus |-> 1]>> }

RankKwargs ==
    { EmptyMap,
      [decay_rate |-> 10],
      [weights |-> <<[likes |-> 2, comments |-> 1, shares |-> 1, time_decay |-> 0]>>],
      [weights |-> <<[likes |-> 1]>>] }

\* The keyword arguments that reach the scorer of an algorithm
KwargsFor(algorithm) ==
    CASE algorithm = "time_decay" -> {kw \in RankKwargs : "weights" \notin DOMAIN kw}
      [] algorithm = "hybrid" -> {kw \in RankKwargs : "decay_rate" \notin DOMAIN kw}
      [] OTHER -> {EmptyMap}

Init ==
    /\ posts = EmptyMap
    /\ ranking_cache = EmptyMap
    /\ cache_timestamps = EmptyMap
    /\ now = 0
    /\ ret = NoRet
    /\ mutated = NoMutation
    /\ steps = 0
    /\ pending = NoPending
    /\ batch_size = DefaultBatchSize
    /\ StreamIdle

\* Every call the model makes on the engine, and the clock between two calls
AddPost ==
    steps < MaxSteps /\ \E post_id \in PostIds, kwargs \in AddKwargs : add_post(post_id, kwargs)
UpdatePost ==
    steps < MaxSteps /\ \E post_id \in PostIds, kwargs \in UpdateKwargs : update_post(post_id, kwargs)
BatchAddPosts ==
    steps < MaxSteps /\ \E posts_data \in BatchInputs : batch_add_posts(posts_data)
GetRankedPosts ==
    steps < MaxSteps /\ \E algorithm \in AlgorithmNames :
        \E kwargs \in KwargsFor(algorithm) : get_ranked_posts(algorithm, kwargs)
GetPostRank ==
    steps < MaxSteps /\ \E algorithm \in AlgorithmNames : get_post_rank(algorithm, EmptyMap)

Next ==
    \/ AddPost
    \/ UpdatePost
    \/ BatchAddPosts
    \/ GetRankedPosts
    \/ GetPostRank
    \/ get_stats
    \/ Tick

Spec == Init /\ [][Next]_vars

\* Two callers of one engine without a lock: the calls of the one may run
\* between the two steps of a get_ranked_posts of the other
BeginRanking ==
    steps < MaxSteps /\ \E algorithm \in Algorithms :
        \E kwargs \in KwargsFor(algorithm) : begin_ranking(algorithm, kwargs)

NextRace ==
    \/ AddPost
    \/ UpdatePost
    \/ GetRankedPosts
    \/ BeginRanking
    \/ finish_ranking
    \/ Tick

SpecRace == Init /\ [][NextRace]_vars

\* Calls of the hybrid algorithm with weights of the caller's choosing: omitted,
\* those of the specification's example with time_decay 0, and a negative one
HybridKwargs ==
    { EmptyMap,
      [weights |-> <<[likes |-> 1, comments |-> 2, shares |-> 3, time_decay |-> 0]>>],
      [weights |-> <<[likes |-> -1, comments |-> 0, shares |-> 0, time_decay |-> 0]>>] }

RankHybrid ==
    steps < MaxSteps /\ \E kwargs \in HybridKwargs : get_ranked_posts("hybrid", kwargs)

NextHybrid ==
    \/ AddPost
    \/ UpdatePost
    \/ RankHybrid
    \/ Tick

SpecHybrid == Init /\ [][NextHybrid]_vars

\* The posts a caller's iterator yields: "1" and "3" have equal counters
StreamPosts ==
    { Post("1", [likes |-> 1, upvotes |-> 2], 0),
      Post("2", [likes |-> 2, comments |-> 1, downvotes |-> 1], 0),
      Post("3", [likes |-> 1, upvotes |-> 2], 0),
      Post("4", [shares |-> 2, upvotes |-> 3], 0) }

\* What the iterator may yield: a post, or None in place of one
StreamElements == StreamPosts \cup {NonePost}

StreamInputs == UNION {[1..n -> StreamElements] : n \in 0..MaxStreamLen}
BatchSizes == {0, 1, 2, DefaultBatchSize}
TopKs == 0..MaxTopK

\* A StreamingRankingEngine as its constructor leaves it, for each batch_size
InitStream ==
    /\ posts = EmptyMap
    /\ ranking_cache = EmptyMap
    /\ cache_timestamps = EmptyMap
    /\ now = 0
    /\ ret = NoRet
    /\ mutated = NoMutation
    /\ steps = 0
    /\ pending = NoPending
    /\ batch_size \in BatchSizes
    /\ StreamIdle

RankPostsStreaming ==
    pc = "idle" /\ \E post_iterator \in StreamInputs, algorithm \in AlgorithmNames, top_k \in TopKs :
        \E kwargs \in KwargsFor(algorithm) :
           rank_posts_streaming(post_iterator, algorithm, top_k, kwargs)

NextStream ==
    \/ RankPostsStreaming
    \/ PullPost
    \/ EmptyRange
    \/ ScorePost
    \/ SortAndReturn
    \/ StreamTick

SpecStream == InitStream /\ [][NextStream]_vars

\* The thread that runs rank_posts_streaming is scheduled again and again: a
\* step of the call that can be taken is taken
SpecStreamLive ==
    /\ InitStream
    /\ [][NextStream]_vars
    /\ WF_vars(PullPost \/ EmptyRange \/ ScorePost \/ SortAndReturn)

\* Calls one after the other on one StreamingRankingEngine, at one reading of
\* the clock: after a first call of any kind, a caller that makes the watched
\* calls in any order and any number of times
StreamPost(id) == CHOOSE post \in StreamPosts : post.post_id = id

WatchedCalls ==
    { <<<<StreamPost("4"), StreamPost("2"), StreamPost("1")>>, "hot_score", 2, EmptyMap>>,
      <<<<StreamPost("2"), StreamPost("1"), StreamPost("3")>>, "engagement_score", 3,
        EmptyMap>> }

Return == pc \in {"done", "raised"} /\ ReturnToCaller(WatchedCalls)

CallAgain ==
    pc = "returned" /\ \E key \in WatchedCalls :
        rank_posts_streaming(key[1], key[2], key[3], key[4])

NextAgain ==
    \/ RankPostsStreaming
    \/ CallAgain
    \/ PullPost
    \/ EmptyRange
    \/ ScorePost
    \/ SortAndReturn
    \/ Return

SpecAgain == InitStream /\ [][NextAgain]_vars

\* A resident RankingEngine and a call of rank_posts_streaming on a
\* StreamingRankingEngine(), their steps interleaved in any order
ResidentCall ==
    steps < MaxBothSteps /\ (AddPost \/ UpdatePost \/ BatchAddPosts \/ GetRankedPosts \/ Tick)

StreamCall ==
    pc = "idle" /\ \E key \in WatchedCalls :
        rank_posts_streaming(key[1], key[2], key[3], key[4])

NextBoth ==
    \/ ResidentCall
    \/ StreamCall
    \/ PullPost
    \/ ScorePost
    \/ SortAndReturn
    \/ StreamTick

SpecBoth == Init /\ [][NextBoth]_vars

-----------------------------------------------------------------------------
(* Properties of the RankingEngine, checked under Spec *)

Readings == {t \in 0..MaxNow : t % 20 = 0}
Mutators == {"add_post", "update_post", "batch_add_posts"}
Readers == {"get_ranked_posts", "get_post_rank"}

\* The (score, post_id) pairs of a list that get_ranked_posts returned
ScoreIds(rows) == [i \in 1..Len(rows) |-> <<rows[i].score, rows[i].post_id>>]

\* The keyword arguments with which the scorer of an algorithm does not raise
GoodKwargs(algorithm) == {kw \in KwargsFor(algorithm) : ScoreRaises(algorithm, kw) = ""}

\* C1: when the last call that changed the store is a successful update_post, a
\* get_ranked_posts that returns gives, for every limit, the leading part of the
\* descending ranking of the posts as they are now, scored at a time between the
\* update and now: a list cached before the update is never returned.
C1_FreshAfterUpdate ==
    (ret.op = "get_ranked_posts" /\ ret.raised = "" /\ mutated.op = "update_post")
    => \E t \in {r \in Readings : mutated.at <= r /\ r <= now},
          kw \in GoodKwargs(ret.alg) :
          \A limit \in Limits :
             ScoreIds(ret.value[limit])
                = Slice(SortDesc(ScoresAt(ret.alg, kw, t)), limit)

\* A ranking of two posts returned after an update_post, after four calls
C1_Witness ==
    /\ ret.op = "get_ranked_posts"
    /\ ret.raised = ""
    /\ mutated.op = "update_post"
    /\ steps = 4
    /\ Len(ret.value[DefaultLimit]) = 2

\* C2: right after an add_post, update_post or batch_add_posts that returns
\* normally, ranking_cache and cache_timestamps have no entry at all.
C2_MutationClearsCache ==
    (ret.op \in Mutators /\ ret.raised = "")
    => (DOMAIN ranking_cache = {} /\ DOMAIN cache_timestamps = {})

\* An update_post that found two algorithms cached and cleared both
C2_Witness ==
    /\ ret.op = "update_post"
    /\ ret.raised = ""
    /\ Cardinality(ret.dropped) >= 2
    /\ DOMAIN ranking_cache = {}

\* C4: for a registered algorithm and every limit, the list get_ranked_posts
\* returns is sorted by score descending, fresh or from the cache.
C4_SortedDescending ==
    (ret.op = "get_ranked_posts" /\ ret.raised = "" /\ ret.alg \in Algorithms)
    => \A limit \in Limits :
          \A i \in 1..(Len(ret.value[limit]) - 1) :
             ret.value[limit][i].score >= ret.value[limit][i + 1].score

\* A list of two posts with different scores, served from the cache: its entry
\* is older than the clock, and the post ranked first is not the first key
C4_Witness ==
    /\ ret.op = "get_ranked_posts"
    /\ ret.raised = ""
    /\ ret.alg \in Algorithms
    /\ cache_timestamps[ret.alg] < now
    /\ Len(ret.value[DefaultLimit]) = 2
    /\ ret.value[DefaultLimit][1].score > ret.value[DefaultLimit][2].score
    /\ ret.value[DefaultLimit][1].post_id = "b"

\* C5: every stored post has base_score = likes + 2 * comments + 3 * shares,
\* whatever fields the calls carried, base_score included.
C5_BaseScore ==
    \A id \in DOMAIN posts :
       posts[id].base_score
          = posts[id].likes + 2 * posts[id].comments + 3 * posts[id].shares

\* An update_post that was given base_score and a counter: the stored base_score
\* is the formula's value, not the one given
C5_Witness ==
    /\ ret.op = "update_post"
    /\ ret.raised = ""
    /\ "base_score" \in DOMAIN ret.kwargs
    /\ posts[ret.post_id].base_score # ret.kwargs.base_score
    /\ posts[ret.post_id].base_score > 0

\* C6: add_post with an id that is in the store raises the duplicate error and
\* leaves the posts, the cache and its timestamps as they were.
C6_DuplicateAddChangesNothing ==
    [][(ret'.op = "add_post" /\ ret'.post_id \in DOMAIN posts)
       => (/\ ret'.raised = "ValueError: already exists"
           /\ UNCHANGED <<posts, ranking_cache, cache_timestamps>>)]_vars

\* A rejected add_post with a ranking still in the cache
C6_Witness ==
    /\ ret.op = "add_post"
    /\ ret.raised = "ValueError: already exists"
    /\ ret.post_id \in DOMAIN posts
    /\ DOMAIN ranking_cache # {}

\* C7: update_post with an id that is not in the store raises the not-found
\* error and leaves the posts, the cache and its timestamps as they were.
C7_MissingUpdateChangesNothing ==
    [][(ret'.op = "update_post" /\ ret'.post_id \notin DOMAIN posts)
       => (/\ ret'.raised = "ValueError: not found"
           /\ UNCHANGED <<posts, ranking_cache, cache_timestamps>>)]_vars

\* A rejected update_post with a post stored and a ranking still in the cache
C7_Witness ==
    /\ ret.op = "update_post"
    /\ ret.raised = "ValueError: not found"
    /\ ret.post_id \notin DOMAIN posts
    /\ DOMAIN posts # {}
    /\ DOMAIN ranking_cache # {}

\* The entries of a batch are well formed: each has a post_id and fields of Post
WellFormed(posts_data) ==
    \A i \in 1..Len(posts_data) :
       /\ "post_id" \in DOMAIN posts_data[i]
       /\ DOMAIN posts_data[i] \subseteq PostFields

BatchIds(posts_data) == {posts_data[i].post_id : i \in 1..Len(posts_data)}

\* The last entry of the batch that has the id
LastEntry(posts_data, id) ==
    posts_data[CHOOSE i \in 1..Len(posts_data) :
                  /\ posts_data[i].post_id = id
                  /\ \A j \in (i + 1)..Len(posts_data) : posts_data[j].post_id # id]

\* C8: batch_add_posts never raises the duplicate error; on a well-formed batch
\* it returns, every id of the batch then holds the post built from the last
\* entry with that id (base_score recomputed), every other post is unchanged,
\* and the store has one post per distinct id.
C8_BatchOverwrites ==
    [][(ret'.op = "batch_add_posts")
       => (/\ ret'.raised # "ValueError: already exists"
           /\ WellFormed(ret'.batch)
              => (/\ ret'.raised = ""
                  /\ DOMAIN posts' = DOMAIN posts \cup BatchIds(ret'.batch)
                  /\ \A id \in DOMAIN posts' :
                        IF id \in BatchIds(ret'.batch)
                        THEN LET e == LastEntry(ret'.batch, id)
                             IN  /\ \A f \in DOMAIN e \ {"base_score"} :
                                       posts'[id][f] = e[f]
                                 /\ \A f \in {"likes", "comments", "shares",
                                              "upvotes", "downvotes"} \ DOMAIN e :
                                       posts'[id][f] = 0
                                 /\ "timestamp" \notin DOMAIN e
                                       => posts'[id].timestamp = now
                                 /\ posts'[id].base_score
                                       = posts'[id].likes + 2 * posts'[id].comments
                                         + 3 * posts'[id].shares
                        ELSE posts'[id] = posts[id]))]_vars

\* A batch with the same id twice: the stored post is the one of the second entry
C8_Witness ==
    /\ ret.op = "batch_add_posts"
    /\ ret.raised = ""
    /\ Len(ret.batch) = 2
    /\ ret.batch[1].post_id = ret.batch[2].post_id
    /\ ret.batch[1].likes # ret.batch[2].likes
    /\ posts[ret.batch[2].post_id].likes = ret.batch[2].likes
    /\ Cardinality(DOMAIN posts) = 2

\* C9: get_ranked_posts and get_post_rank with an algorithm name that is not
\* registered raise the unknown-algorithm error and add no cache entry, in every
\* state of the store, the empty store included.
C9_UnknownAlgorithmRaises ==
    (ret.op \in Readers /\ ret.alg \notin Algorithms)
    => (/\ ret.raised = "ValueError: Unknown algorithm"
        /\ ret.alg \notin DOMAIN ranking_cache)

\* C11: a get_ranked_posts that finds an entry of its algorithm less than
\* cache_ttl old returns, for every limit, the leading part of exactly that
\* entry, does not raise whatever parameters it was given, and leaves the entry
\* and its timestamp as they were: nothing is rescored.
C11_CachedWithinTtl ==
    [][(/\ ret'.op = "get_ranked_posts"
        /\ ret'.alg \in DOMAIN cache_timestamps
        /\ now - cache_timestamps[ret'.alg] < cache_ttl)
       => (/\ ret'.raised = ""
           /\ UNCHANGED <<ranking_cache, cache_timestamps>>
           /\ \A limit \in Limits :
                 ScoreIds(ret'.value[limit])
                    = Slice(ranking_cache[ret'.alg], limit))]_vars

\* A ranking served from an entry made at an earlier time, to a call that passes
\* parameters of its own: the scores returned are not those a rescoring with
\* these parameters at this time gives
C11_Witness ==
    /\ ret.op = "get_ranked_posts"
    /\ ret.raised = ""
    /\ ret.found >= 0
    /\ ret.found < now
    /\ now - ret.found < cache_ttl
    /\ cache_timestamps[ret.alg] = ret.found
    /\ ret.kwargs # EmptyMap
    /\ ScoreRaises(ret.alg, ret.kwargs) = ""
    /\ Len(ret.value[DefaultLimit]) >= 1
    /\ ScoreIds(ret.value[DefaultLimit])
          # SortDesc(ScoresAt(ret.alg, ret.kwargs, now))

\* C12: a get_ranked_posts that finds an entry of its algorithm that is
\* cache_ttl old or older does not use it: it rescores the stored posts, and
\* either the scoring raises (the scorer's exception, on a store that is not
\* empty) or the entry becomes the fresh descending ranking, stamped with the
\* current time, and the call returns the leading part of that ranking.
C12_ExpiredIsRescored ==
    [][(/\ ret'.op = "get_ranked_posts"
        /\ ret'.alg \in DOMAIN cache_timestamps
        /\ now - cache_timestamps[ret'.alg] >= cache_ttl)
       => IF ret'.raised = ""
          THEN LET fresh == SortDesc(ScoresAt(ret'.alg, ret'.kwargs, now))
               IN  /\ ranking_cache' = Put(ranking_cache, ret'.alg, fresh)
                   /\ cache_timestamps' = Put(cache_timestamps, ret'.alg, now)
                   /\ \A limit \in Limits :
                         ScoreIds(ret'.value[limit]) = Slice(fresh, limit)
          ELSE /\ DOMAIN posts # {}
               /\ ret'.raised = ScoreRaises(ret'.alg, ret'.kwargs)]_vars

\* A call at the boundary: the entry it found is exactly cache_ttl old, and the
\* entry it leaves is stamped with the current time and holds other scores than
\* a scoring at the old timestamp gives
C12_Witness ==
    /\ ret.op = "get_ranked_posts"
    /\ ret.raised = ""
    /\ ret.found >= 0
    /\ now - ret.found = cache_ttl
    /\ cache_timestamps[ret.alg] = now
    /\ Len(ret.value[DefaultLimit]) >= 1
    /\ ScoreIds(ret.value[DefaultLimit])
          # SortDesc(ScoresAt(ret.alg, ret.kwargs, ret.found))

\* C13: a get_post_rank that returns gives, for every id in the store, a rank r
\* with 1 <= r <= number of stored posts at which the id stands in the ranking
\* of the algorithm, and None (0) for every id that is not in the store.
C13_RankIsPosition ==
    (ret.op = "get_post_rank" /\ ret.raised = "")
    => \A id \in RankIds :
          IF id \in DOMAIN posts
          THEN /\ 1 <= ret.rank[id]
               /\ ret.rank[id] <= Cardinality(DOMAIN posts)
               /\ ret.rank[id] <= Len(ranking_cache[ret.alg])
               /\ ranking_cache[ret.alg][ret.rank[id]][2] = id
          ELSE ret.rank[id] = 0

\* C14 as stated: a get_post_rank for an id that is not in the store raises the
\* not-found error of update_post.
C14_AbsentIdRaisesNotFound ==
    (ret.op = "get_post_rank")
    => \A id \in RankIds \ DOMAIN posts : ret.raised = "ValueError: not found"

\* C14 amended: get_post_rank never raises the not-found error; when it raises,
\* the exception is the scorer's, and when it returns, the rank of every id that
\* is not in the store is None (0).
C14_AbsentIdGivesNone ==
    (ret.op = "get_post_rank")
    => /\ ret.raised # "ValueError: not found"
       /\ ret.raised # "" => ret.raised = ScoreRaises(ret.alg, ret.kwargs)
       /\ ret.raised = "" => \A id \in RankIds \ DOMAIN posts : ret.rank[id] = 0

\* A lookup on a store of one post: the stored id has rank 1, the two others None
C14_Witness ==
    /\ ret.op = "get_post_rank"
    /\ ret.raised = ""
    /\ Cardinality(DOMAIN posts) = 1
    /\ \A id \in DOMAIN posts : ret.rank[id] = 1
    /\ \A id \in RankIds \ DOMAIN posts : ret.rank[id] = 0

\* C19: for the hybrid algorithm every weights map is accepted, also one that
\* omits some of the keys likes, comments, shares, time_decay: get_ranked_posts
\* and get_post_rank return and do not raise.
C19_PartialWeightsAccepted ==
    (ret.op \in Readers /\ ret.alg = "hybrid") => ret.raised = ""

\* C20: when get_ranked_posts or get_post_rank scores a store that is not empty
\* and the scorer raises, the call raises that exception; and a call that raises
\* returns no list and no rank and leaves the posts, ranking_cache and
\* cache_timestamps exactly as they were.
C20_ScorerExceptionAborts ==
    [][(ret'.op \in Readers)
       => /\ (/\ DOMAIN posts # {}
              /\ ~(/\ ret'.alg \in DOMAIN cache_timestamps
                   /\ now - cache_timestamps[ret'.alg] < cache_ttl)
              /\ ScoreRaises(ret'.alg, ret'.kwargs) # "")
             => ret'.raised = ScoreRaises(ret'.alg, ret'.kwargs)
          /\ ret'.raised # ""
             => /\ UNCHANGED <<posts, ranking_cache, cache_timestamps>>
                /\ ret'.value = EmptyMap
                /\ ret'.rank = EmptyMap]_vars

\* A call that raised on finding an expired entry of its algorithm: the entry,
\* which ranks a post, and its old timestamp are still there
C20_Witness ==
    /\ ret.op \in Readers
    /\ ret.raised # ""
    /\ ret.found >= 0
    /\ now - ret.found >= cache_ttl
    /\ cache_timestamps[ret.alg] = ret.found
    /\ Len(ranking_cache[ret.alg]) >= 1

\* C22: an update_post that returns leaves the timestamp of its post as it was,
\* whatever keyword fields it was given.
C22_TimestampImmutable ==
    [][(ret'.op = "update_post" /\ ret'.raised = "")
       => posts'[ret'.post_id].timestamp = posts[ret'.post_id].timestamp]_vars

\* C23: an update_post that returns leaves the set of stored ids and every other
\* post as they were; on its own post every field named in the call has the
\* value given, base_score has the value of its formula, and every other field
\* keeps its value.
C23_UpdateFrame ==
    [][(ret'.op = "update_post" /\ ret'.raised = "")
       => LET id == ret'.post_id
              named == (DOMAIN ret'.kwargs \cap PostFields) \ {"base_score"}
          IN  /\ DOMAIN posts' = DOMAIN posts
              /\ \A other \in DOMAIN posts \ {id} : posts'[other] = posts[other]
              /\ \A f \in named : posts'[id][f] = ret'.kwargs[f]
              /\ \A f \in PostFields \ (named \cup {"base_score"}) :
                    posts'[id][f] = posts[id][f]
              /\ posts'[id].base_score = BaseScore(posts'[id])]_vars

\* An update of shares and downvotes on a post that has a like, in a store of
\* two posts
C23_Witness ==
    /\ ret.op = "update_post"
    /\ ret.raised = ""
    /\ "likes" \notin DOMAIN ret.kwargs
    /\ "shares" \in DOMAIN ret.kwargs
    /\ posts[ret.post_id].likes >= 1
    /\ posts[ret.post_id].shares = ret.kwargs.shares
    /\ Cardinality(DOMAIN posts) = 2

\* C30: a get_ranked_posts that returns gives, for every integer limit, 0 and
\* negative ones included, at most limit entries, so none for a limit of 0 or
\* below; for limit >= 0 it gives the
\* first min(limit, number of stored posts) entries of the full descending
\* ranking, with rank = 1, 2, 3, ... and no gap, and the list of a smaller
\* limit is the leading part of the list of a larger one.
C30_LimitBoundsResult ==
    (ret.op = "get_ranked_posts" /\ ret.raised = "")
    => \A limit \in Limits :
          LET rows == ret.value[limit]
              full == ret.value[DefaultLimit]
          IN  /\ Len(rows) <= (IF limit > 0 THEN limit ELSE 0)
              /\ limit >= 0
                    => /\ Len(rows) = Min(limit, Cardinality(DOMAIN posts))
                       /\ \A i \in 1..Len(rows) : rows[i].rank = i /\ rows[i] = full[i]
                       /\ \A larger \in {l \in Limits : l >= limit} :
                             rows = SubSeq(ret.value[larger], 1, Len(rows))

\* The sum of a counter over the posts that are stored now
StoredTotal(field) ==
    LET of[S \in SUBSET DOMAIN posts] ==
            IF S = {} THEN 0
            ELSE LET id == CHOOSE x \in S : TRUE
                 IN  of[S \ {id}] + posts[id][field]
    IN  of[DOMAIN posts]

\* C31: get_stats reports total_posts = the number of stored ids, total_likes,
\* total_comments and total_shares = the sums over the posts as they are now,
\* each average = its total / total_posts (in units of 1e-6), 0 for an empty
\* store, and cache_size = the number of names that have a cached ranking.
C31_StatsMatchStore ==
    ret.op = "get_stats"
    => LET n == Cardinality(DOMAIN posts)
           Average(avg, total) ==
               IF n = 0 THEN avg = 0
               ELSE avg * n <= total * 1000000 /\ total * 1000000 < (avg + 1) * n
       IN  /\ ret.raised = ""
           /\ ret.stats.total_posts = n
           /\ ret.stats.total_likes = StoredTotal("likes")
           /\ ret.stats.total_comments = StoredTotal("comments")
           /\ ret.stats.total_shares = StoredTotal("shares")
           /\ Average(ret.stats.avg_likes_per_post, ret.stats.total_likes)
           /\ Average(ret.stats.avg_comments_per_post, ret.stats.total_comments)
           /\ Average(ret.stats.avg_shares_per_post, ret.stats.total_shares)
           /\ ret.stats.cache_size = Cardinality(DOMAIN ranking_cache)

\* Statistics of two posts whose likes add up to an odd number, with one
\* ranking cached: the average is not a whole number
C31_Witness ==
    /\ ret.op = "get_stats"
    /\ ret.stats.total_posts = 2
    /\ ret.stats.total_likes % 2 = 1
    /\ ret.stats.avg_likes_per_post % 1000000 = 500000
    /\ ret.stats.cache_size = 1

\* C32: in every state, after calls that raised too, each cached ranking lists
\* exactly the ids that are in the store now, each once, and the cached ranking
\* of a registered algorithm is the descending ranking of the posts as they are
\* now, scored at the time the entry was cached.
C32_CacheMatchesStore ==
    \A algorithm \in DOMAIN ranking_cache :
       LET cached == ranking_cache[algorithm]
       IN  /\ {cached[i][2] : i \in 1..Len(cached)} = DOMAIN posts
           /\ Len(cached) = Cardinality(DOMAIN posts)
           /\ algorithm \in Algorithms
                 => \E kw \in GoodKwargs(algorithm) :
                       cached = SortDesc(ScoresAt(algorithm, kw,
                                                  cache_timestamps[algorithm]))

\* The entries of a cache map for the names other than algorithm
OtherEntries(cache, algorithm) ==
    [a \in DOMAIN cache \ {algorithm} |-> cache[a]]

\* C37: get_ranked_posts, get_post_rank and get_stats, returning or raising,
\* leave the stored ids and every field of every stored post as they were;
\* get_ranked_posts and get_post_rank leave the cached ranking and the cache
\* timestamp of every algorithm other than the one they were called with as
\* they were, and get_stats leaves the whole cache as it was.
C37_ReadsLeaveStore ==
    [][(steps' # steps /\ ret'.op \in Readers \cup {"get_stats"})
       => /\ posts' = posts
          /\ mutated' = mutated
          /\ ret'.op \in Readers
                => /\ OtherEntries(ranking_cache', ret'.alg)
                         = OtherEntries(ranking_cache, ret'.alg)
                   /\ OtherEntries(cache_timestamps', ret'.alg)
                         = OtherEntries(cache_timestamps, ret'.alg)
          /\ ret'.op = "get_stats"
                => /\ ranking_cache' = ranking_cache
                   /\ cache_timestamps' = cache_timestamps]_vars

\* A get_ranked_posts has computed and cached the ranking of its algorithm for
\* a store of two posts, and the ranking of another algorithm is cached still
C37_Witness ==
    /\ ret.op = "get_ranked_posts"
    /\ ret.raised = ""
    /\ ret.found = -1
    /\ Cardinality(DOMAIN posts) = 2
    /\ ret.alg \in DOMAIN ranking_cache
    /\ Cardinality(DOMAIN ranking_cache) = 2

\* C38: for every algorithm name and parameters, decay_rate or weights omitted
\* included, _vectorized_calculate_scores raises on the present store what
\* _calculate_scores raises and otherwise yields the same (score, id) pairs at
\* the same reading of the clock.
C38_VectorizedSameScores ==
    \A algorithm \in AlgorithmNames :
       \A kwargs \in KwargsFor(algorithm) :
          /\ VectorizedRaises(algorithm, kwargs) = CalculateRaises(algorithm, kwargs)
          /\ CalculateRaises(algorithm, kwargs) = ""
                => vectorized_calculate_scores(algorithm, kwargs)
                      = calculate_scores(algorithm, kwargs)

-----------------------------------------------------------------------------
(* Properties of rank_posts_streaming, checked under SpecStream *)

Ended == pc \in {"done", "raised"}

\* The score of the i-th post of the sequence at the present reading of the clock
SourceScore(i) == calculate_score(source[i], s_algorithm, s_kwargs)

DistinctScores ==
    /\ \A i \in 1..Len(source) : StreamScoreRaises(source[i], s_algorithm, s_kwargs) = ""
    /\ \A i, j \in 1..Len(source) : i # j => SourceScore(i) # SourceScore(j)

\* The position in the sequence of the post with exactly r - 1 posts above it
Ranked(r) ==
    CHOOSE i \in 1..Len(source) :
       Cardinality({j \in 1..Len(source) : SourceScore(j) > SourceScore(i)}) = r - 1

TopIds == [r \in 1..Len(s_ret.top_posts) |-> s_ret.top_posts[r][2].post_id]

\* C3: for a sequence of N posts with pairwise distinct scores, 1 <= top_k <= N,
\* batch_size >= 1 and the clock held fixed during the call, the call returns
\* and the ids of top_posts are, in order, the first top_k ids of the whole
\* sequence sorted by score descending.
C3_TopKMatchesFullSort ==
    (/\ Ended
     /\ s_algorithm \in Algorithms
     /\ batch_size >= 1
     /\ 1 <= s_top_k /\ s_top_k <= Len(source)
     /\ now = start_time
     /\ DistinctScores)
    => (/\ pc = "done"
        /\ TopIds = [r \in 1..s_top_k |-> source[Ranked(r)].post_id])

\* Three posts in two batches, top_k = 2, and the post that came first is not
\* among the two that are returned: it was evicted from the full heap
C3_Witness ==
    /\ pc = "done"
    /\ batch_size = 2
    /\ s_top_k = 2
    /\ Len(source) = 3
    /\ now = start_time
    /\ DistinctScores
    /\ \A r \in 1..Len(s_ret.top_posts) :
          s_ret.top_posts[r][2].post_id # source[1].post_id

\* C10: rank_posts_streaming with an algorithm name that is not registered
\* raises the unknown-algorithm error and returns no result, for every input
\* sequence, the empty one included (stated here for batch_size >= 1).
C10_UnknownAlgorithmRaises ==
    (Ended /\ s_algorithm \notin Algorithms /\ batch_size >= 1)
    => (pc = "raised" /\ s_ret.raised = "ValueError: Unknown algorithm")

\* C15: rank_posts_streaming ends without a comparison error for every sequence
\* of valid posts, sequences with equal scores included: no TypeError from the
\* heap operations or from the final sort.
C15_NoComparisonError ==
    Ended => s_ret.raised # "TypeError"

\* C16: while rank_posts_streaming runs and when it has ended, the heap holds at
\* most top_k entries and the batch at most batch_size posts, so both together
\* hold at most top_k + batch_size; the result has at most top_k entries.
C16_BoundedStructures ==
    (pc # "idle")
    => /\ Len(min_heap) <= s_top_k
       /\ Len(batch) <= batch_size
       /\ Len(min_heap) + Len(batch) <= s_top_k + batch_size
       /\ Len(s_ret.top_posts) <= s_top_k

\* Three posts pulled one per batch with top_k = 1: heap and batch are both full
\* while the third post is scored, and they hold two posts of the three
C16_Witness ==
    /\ pc = "score"
    /\ batch_size = 1
    /\ s_top_k = 1
    /\ Len(source) = 3
    /\ total_posts = 3
    /\ Len(min_heap) = 1
    /\ Len(batch) = 1

\* The heap, or the exception, after the first n posts of the sequence have been
\* scored in order at the present reading of the clock: what the loops of an
\* engine leave whose batch_size is at least the length of the sequence
RECURSIVE HeapAfter(_)
HeapAfter(n) ==
    IF n = 0 THEN [heap |-> <<>>, raised |-> ""]
    ELSE LET prev == HeapAfter(n - 1)
             post == source[n]
             raises == StreamScoreRaises(post, s_algorithm, s_kwargs)
         IN  IF prev.raised # "" THEN prev
             ELSE IF raises # "" THEN [heap |-> prev.heap, raised |-> raises]
             ELSE Keep(prev.heap, s_top_k,
                       <<calculate_score(post, s_algorithm, s_kwargs), post>>)

\* What that engine raises, the ids of its top_posts, its total_posts_processed
OneBatchOutcome ==
    LET after == HeapAfter(Len(source))
        raises == IF after.raised # "" THEN after.raised
                  ELSE IF SortedRaises(after.heap) THEN "TypeError" ELSE ""
        top == IF raises # "" THEN <<>> ELSE SortedDesc(after.heap)
    IN  [raised |-> raises,
         ids |-> [r \in 1..Len(top) |-> top[r][2].post_id],
         total |-> IF raises # "" THEN 0 ELSE Len(source)]

\* C17: with the clock held fixed, the call gives the same outcome (exception,
\* ordered ids of top_posts, total_posts_processed) for every batch_size the
\* constructor accepts: the outcome of an engine that takes the whole sequence
\* as one batch.
C17_BatchSizeIrrelevant ==
    (Ended /\ now = start_time)
    => [raised |-> s_ret.raised, ids |-> TopIds,
        total |-> s_ret.total_posts_processed] = OneBatchOutcome

\* C18: for batch_size >= 1 a call that returns has total_posts_processed = N
\* and min(top_k, N) entries in top_posts, for every top_k >= 0; and it does
\* return when the algorithm is registered, the posts are valid and their scores
\* pairwise distinct with the clock held fixed.
C18_Counts ==
    (Ended /\ batch_size >= 1)
    => /\ pc = "done"
          => /\ s_ret.total_posts_processed = Len(source)
             /\ Len(s_ret.top_posts) = Min(s_top_k, Len(source))
       /\ (s_algorithm \in Algorithms /\ now = start_time /\ DistinctScores)
          => pc = "done"

\* Two posts of different scores in two batches with top_k = 3: both are
\* returned; top_k exceeds the length of the sequence
C18_Witness ==
    /\ pc = "done"
    /\ batch_size = 1
    /\ s_top_k = 3
    /\ Len(source) = 2
    /\ DistinctScores
    /\ s_ret.total_posts_processed = 2
    /\ Len(s_ret.top_posts) = 2

SameData(p, q) ==
    \A f \in PostFields \ {"post_id"} : p[f] = q[f]

\* C24: within one rank_posts_streaming call every post is scored against the
\* same reading of the clock: two posts in the heap, or in the result, with
\* equal counters and equal timestamp have equal scores, however the clock
\* advances during the call.
C24_OneClockValue ==
    LET held == min_heap \o s_ret.top_posts
    IN  \A i, j \in 1..Len(held) :
           SameData(held[i][2], held[j][2]) => held[i][1] = held[j][1]

\* The readings of the clock since the call began
CallReadings == {t \in 0..now : t % 20 = 0 /\ start_time <= t}

\* C25: whatever the algorithm name and the parameters of the call, decay_rate
\* or weights omitted included, _calculate_score of the streaming engine raises
\* for the post about to be scored what the dispatch of _calculate_scores
\* raises, and otherwise gives the score the resident engine gives that post at
\* the same reading of the clock; every score the call holds is such a score,
\* taken at a reading since the call began.
C25_SameDispatch ==
    /\ (pc = "score" /\ batch[batch_i + 1] # NonePost)
          => LET post == batch[batch_i + 1]
             IN  /\ StreamScoreRaises(post, s_algorithm, s_kwargs)
                       = ScoreRaises(s_algorithm, s_kwargs)
                 /\ ScoreRaises(s_algorithm, s_kwargs) = ""
                       => calculate_score(post, s_algorithm, s_kwargs)
                             = Score(post, s_algorithm, s_kwargs, now)
    /\ \A i \in 1..Len(min_heap) :
          \E t \in CallReadings :
             min_heap[i][1] = Score(min_heap[i][2], s_algorithm, s_kwargs, t)

\* A time_decay call without decay_rate that scored its posts after the clock
\* had advanced: the scores returned are decayed, and are those of the resident
\* engine's scorer with its default rate
C25_Witness ==
    /\ pc = "done"
    /\ s_algorithm = "time_decay"
    /\ s_kwargs = EmptyMap
    /\ now > start_time
    /\ Len(s_ret.top_posts) >= 2
    /\ \A r \in 1..Len(s_ret.top_posts) :
          /\ s_ret.top_posts[r][1]
                = Score(s_ret.top_posts[r][2], "time_decay", EmptyMap, now)
          /\ s_ret.top_posts[r][1]
                # Score(s_ret.top_posts[r][2], "time_decay", EmptyMap, start_time)

\* The number of posts of the sequence that the scoring loop has passed
Scored == it_pos - (Len(batch) - batch_i)

\* The (score, post) pairs of the m highest-scoring of the first n posts
Best(n, m) ==
    {<<SourceScore(i), source[i]>> : i \in
        {i \in 1..n : Cardinality({j \in 1..n : SourceScore(j) > SourceScore(i)}) < m}}

HeapSet(heap) == {heap[i] : i \in 1..Len(heap)}

\* C34: for top_k >= 1, pairwise distinct scores and the clock held fixed, once
\* the i-th post has been processed the heap holds exactly the min(top_k, i)
\* highest-scoring of the first i posts; a post that arrives at a full heap
\* takes the place of the lowest entry when its score is strictly greater and
\* otherwise leaves the heap as it was; nothing enters the heap but the post
\* being processed, so a post evicted or discarded does not come back.
C34_HeapHoldsTop ==
    [][(/\ pc = "score"
        /\ pc' # "raised"
        /\ Scored' = Scored + 1
        /\ s_top_k >= 1
        /\ now = start_time
        /\ DistinctScores)
       => LET i == Scored + 1
              new == <<SourceScore(i), source[i]>>
          IN  /\ Len(min_heap') = Min(s_top_k, i)
              /\ HeapSet(min_heap') = Best(i, Min(s_top_k, i))
              /\ HeapSet(min_heap') \ HeapSet(min_heap) \subseteq {new}
              /\ Len(min_heap) = s_top_k
                    => LET lowest == min_heap[1]
                       IN  IF new[1] > lowest[1]
                           THEN HeapSet(min_heap')
                                   = (HeapSet(min_heap) \ {lowest}) \cup {new}
                           ELSE min_heap' = min_heap]_vars

\* A call with top_k = 2 on three posts of distinct scores has returned: the
\* first post was evicted from the full heap and the second or third was kept
C34_Witness ==
    /\ pc = "done"
    /\ s_top_k = 2
    /\ Len(source) = 3
    /\ now = start_time
    /\ DistinctScores
    /\ Len(s_ret.top_posts) = 2
    /\ \A r \in 1..2 : s_ret.top_posts[r][2] # source[1]

\* C35: a call of rank_posts_streaming on a finite sequence ends, by return or
\* by raise; for batch_size >= 1 it returns only after it has pulled all N
\* elements and has seen the sequence exhausted, once or twice, and at no time
\* has it pulled more often than that; once it has ended it pulls no more.
C35_Terminates ==
    /\ (pc \in {"fill", "score", "sort"}) ~> Ended
    /\ [](pulls <= Len(source) + 2)
    /\ []((pc = "done" /\ batch_size >= 1)
            => /\ it_pos = Len(source)
               /\ s_ret.total_posts_processed = Len(source)
               /\ pulls \in {Len(source) + 1, Len(source) + 2})
    /\ [][Ended => (pulls' = pulls /\ it_pos' = it_pos)]_vars

\* A call with batch_size = 2 on three posts has returned after five pulls:
\* three posts, the exhaustion that ended the second batch, and the exhaustion
\* that ended the loop
C35_Witness ==
    /\ pc = "done"
    /\ batch_size = 2
    /\ Len(source) = 3
    /\ it_pos = 3
    /\ pulls = 5
    /\ batch_count = 2

\* The position in the sequence before the first element of the present batch
BatchStart == it_pos - Len(batch)

\* The batch holds all it will hold: batch_size elements, or all that remained
WholeBatch == Len(batch) = Min(batch_size, Len(source) - BatchStart)

\* C36: the elements are pulled once each and in order, so that the batch is
\* the stretch of the sequence that ends at the last element pulled; an element
\* is scored only when the whole batch that holds it has been pulled; and when
\* the scoring of an element raises, for an unknown algorithm name or an
\* unscorable element, min(batch_size, remaining) elements of that batch have
\* been consumed, of which those after the failing one were never scored.
C36_BatchPulledBeforeScoring ==
    /\ it_pos <= Len(source)
    /\ total_posts = it_pos
    /\ batch = SubSeq(source, BatchStart + 1, it_pos)
    /\ pc = "score" => (batch # <<>> /\ WholeBatch)
    /\ (pc = "raised" /\ batch # <<>>)
          => /\ WholeBatch
             /\ Scored = BatchStart + batch_i
             /\ Len(min_heap) <= Scored

\* The scoring of the first element of a batch of two has raised: the second,
\* a post, was pulled and is not scored, and the heap is empty
C36_Witness ==
    /\ pc = "raised"
    /\ s_ret.raised = "AttributeError"
    /\ batch_size = 2
    /\ Len(batch) = 2
    /\ batch[1] = NonePost
    /\ batch[2] # NonePost
    /\ batch_i = 0
    /\ it_pos = 2
    /\ Len(source) = 3
    /\ min_heap = <<>>

-----------------------------------------------------------------------------
(* Properties of successive calls of rank_posts_streaming, checked under SpecAgain *)

\* C27: a call on a StreamingRankingEngine that ends, with the arguments and
\* the input sequence of an earlier call on the same instance and at the same
\* readings of the clock, ends as that earlier call ended: the same
\* total_posts_processed and the same top_posts, ids and scores in the same
\* order, or the same exception, whatever was called on the instance between.
C27_NoStateBetweenCalls ==
    (pc \in {"done", "raised"} /\ CallKey \in DOMAIN earlier)
       => s_ret = earlier[CallKey]

\* The caller has made both watched calls, one of which raised with posts in
\* its heap, and the hot_score call has returned two posts once more
C27_Witness ==
    /\ pc = "done"
    /\ DOMAIN earlier = WatchedCalls
    /\ CallKey \in WatchedCalls
    /\ s_algorithm = "hot_score"
    /\ Len(s_ret.top_posts) = 2
    /\ s_ret.total_posts_processed = 3
    /\ \E key \in WatchedCalls : earlier[key].raised # ""

-----------------------------------------------------------------------------
(* Properties of the two engines side by side, checked under SpecBoth *)

\* What belongs to the resident engine, and what a call on it returned
EngineState == <<posts, ranking_cache, cache_timestamps, ret, mutated>>

\* C28: with the steps of rank_posts_streaming and the calls on a separate
\* RankingEngine interleaved, a step of the one leaves all that belongs to the
\* other as it was, base_engine is never changed, and each gives what it gives
\* alone: a get_ranked_posts that finds no valid cache returns the descending
\* ranking of its store at the present clock, and a streaming call during which
\* the clock stood still ends as the scoring of its sequence in order ends.
C28_NoSharedState ==
    [][/\ svars' # svars => EngineState' = EngineState
       /\ EngineState' # EngineState => svars' = svars
       /\ base_engine' = NewEngine
       /\ (/\ ret' # ret
           /\ ret'.op = "get_ranked_posts"
           /\ ret'.raised = ""
           /\ (ret'.found = -1 \/ now - ret'.found >= cache_ttl))
          => \A limit \in Limits :
                ScoreIds(ret'.value[limit])
                   = Slice(SortDesc(ScoresAt(ret'.alg, ret'.kwargs, now)), limit)
       /\ (pc \in {"score", "sort"} /\ pc' \in {"done", "raised"} /\ now = start_time)
          => LET after == HeapAfter(Len(source))
                 raises == IF after.raised # "" THEN after.raised
                           ELSE IF SortedRaises(after.heap) THEN "TypeError" ELSE ""
             IN  /\ s_ret'.raised = raises
                 /\ raises = ""
                       => /\ s_ret'.top_posts = SortedDesc(after.heap)
                          /\ s_ret'.total_posts_processed = Len(source)]_vars

\* A get_ranked_posts on the resident engine ran and cached a ranking of its
\* store while a streaming call, begun before, was scoring its posts
C28_Witness ==
    /\ pc = "score"
    /\ Len(min_heap) >= 1
    /\ start_time = 0
    /\ ret.op = "get_ranked_posts"
    /\ ret.raised = ""
    /\ Len(ret.value[DefaultLimit]) >= 1
    /\ "hot_score" \in DOMAIN cache_timestamps
    /\ cache_timestamps["hot_score"] = 20

-----------------------------------------------------------------------------
(* Properties of the hybrid algorithm, checked under SpecHybrid *)

\* The weights of the call, the defaults when omitted, are all non-negative
NonNegativeWeights(kwargs) ==
    LET weights == Get(kwargs, "weights", <<>>)
        w == IF weights = <<>> THEN DefaultWeights ELSE weights[1]
    IN  \A k \in WeightKeys : w[k] >= 0

\* C29: when every stored post has non-negative likes, comments and shares, a
\* get_ranked_posts("hybrid") called with non-negative weights and
\* time_decay >= 0 returns no entry with a score below 0.
C29_HybridNonNegative ==
    (/\ ret.op = "get_ranked_posts"
     /\ ret.alg = "hybrid"
     /\ ret.raised = ""
     /\ NonNegativeWeights(ret.kwargs)
     /\ \A id \in DOMAIN posts :
           posts[id].likes >= 0 /\ posts[id].comments >= 0 /\ posts[id].shares >= 0)
    => \A limit \in Limits :
          \A i \in 1..Len(ret.value[limit]) : ret.value[limit][i].score >= 0

-----------------------------------------------------------------------------
(* Properties of an engine shared without a lock, checked under SpecRace *)

\* The ranking of the posts as they are now, at some reading of the clock
CurrentRankings(algorithm, kwargs) ==
    {SortDesc(ScoresAt(algorithm, kwargs, t)) : t \in Readings}

\* C33: a get_ranked_posts whose scoring is followed by a mutation of another
\* caller writes the scores it computed before the mutation into the cache,
\* with the time of the write, whether or not the store has changed since;
\* and a later get_ranked_posts that finds this entry valid returns it.
C33_RaceNotDetected ==
    [][/\ (pending # NoPending /\ pending' = NoPending)
          => /\ ranking_cache'[pending.alg] = pending.scores
             /\ cache_timestamps'[pending.alg] = now
             /\ \A limit \in Limits :
                   ScoreIds(ret'.value[limit]) = Slice(pending.scores, limit)
       /\ (/\ pending' = pending
           /\ ret' # ret
           /\ ret'.op = "get_ranked_posts"
           /\ ret'.raised = ""
           /\ is_cache_valid(ret'.alg))
          => \A limit \in Limits :
                ScoreIds(ret'.value[limit]) = Slice(ranking_cache[ret'.alg], limit)]_vars

\* After a successful update_post no further mutation ran, and a
\* get_ranked_posts has returned from a valid cache entry, written after the
\* update, a list that is the ranking of the present posts at no reading of
\* the clock and with no parameters: the scores of before the update
C33_Witness ==
    /\ ret.op = "get_ranked_posts"
    /\ ret.raised = ""
    /\ ret.found >= 0
    /\ now - ret.found < cache_ttl
    /\ mutated.op = "update_post"
    /\ mutated.raised = ""
    /\ mutated.at <= ret.found
    /\ pending = NoPending
    /\ ret.alg \in DOMAIN ranking_cache
    /\ ScoreIds(ret.value[DefaultLimit]) = ranking_cache[ret.alg]
    /\ \A kw \in GoodKwargs(ret.alg) :
          ranking_cache[ret.alg] \notin CurrentRankings(ret.alg, kw)

====
